---- MODULE Spec2Model ----
(***************************************************************************)
(* Model of the CUDA path tracer kernel pipeline of material_aging:        *)
(* cuda_pathtracer/src/AgingEffects.cu (aging transform, scene query,      *)
(* path integrator, render kernel, host/device scene bridge).              *)
(*                                                                         *)
(* Real-valued quantities (colours, distances, densities, random samples)  *)
(* are exact rationals <<n, d>> with d > 0 in lowest terms; float rounding *)
(* is not modelled.                                                        *)
(***************************************************************************)
EXTENDS Integers, Sequences, FiniteSets, TLC

VARIABLES
    \* ---- __constant__ broadcast memory (AgingEffects.cu:84-88)
    d_camera, d_spheres, d_planes, d_num_spheres, d_num_planes,
    \* ---- outcome of the last initializeGPUData call: "none" | "ok" | "error"
    upload_result,
    \* ---- scene query: the outcome of the hit test of the current ray against
    \* each published sphere and plane, and the record intersectScene returned
    sphere_tests, plane_tests, closest_hit,
    \* ---- traceRay: control state ("idle" | "loop" | "done"), the max_depth
    \* argument, the locals depth, ray, throughput and final_color, the
    \* returned colour, and a record of the last loop iteration
    t_pc, t_max_depth, t_depth, t_ray, t_throughput, t_final_color, t_result,
    t_iter,
    \* ---- render launch: the kernel arguments and launch shape, the output
    \* buffer (one float4 per pixel), per thread its position ("start" |
    \* "traced" | "done"), the traced sample and the local pixel_color, the
    \* log of accesses to the buffer by the launch
    width, height, frame_count, grid, block, output, r_pc, r_sample,
    r_pixel_color, r_access,
    \* the samples traced for the pixel since the last frame 0, in frame order
    f_samples,
    \* the last two seedings of one thread's generator: the thread, the
    \* frame_count of the launch and the seed given to curand_init
    rand_log,
    \* ---- aging transform: the noise field, and the arguments and the result
    \* of the last applyRustEffect call
    noise_field, rust_call, rust_result

bridge_vars == <<d_camera, d_spheres, d_planes, d_num_spheres, d_num_planes,
                 upload_result>>

query_vars == <<sphere_tests, plane_tests, closest_hit>>

trace_vars == <<t_pc, t_max_depth, t_depth, t_ray, t_throughput, t_final_color,
                t_result, t_iter>>

render_vars == <<width, height, frame_count, grid, block, output, r_pc, r_sample,
                 r_pixel_color, r_access, f_samples, rand_log>>

aging_vars == <<noise_field, rust_call, rust_result>>

vars == <<bridge_vars, query_vars, trace_vars, render_vars, aging_vars>>

(***************************************************************************)
(* Exact rational arithmetic.                                              *)
(***************************************************************************)
Abs(x) == IF x < 0 THEN -x ELSE x

RECURSIVE GCD(_, _)
GCD(a, b) == IF b = 0 THEN a ELSE GCD(b, a % b)

Rat(n, d) ==
    LET s == IF d < 0 THEN -1 ELSE 1
        g == GCD(Abs(n), Abs(d))
    IN  <<(s * n) \div g, (s * d) \div g>>

R0 == <<0, 1>>
R1 == <<1, 1>>

RAdd(a, b) == Rat(a[1] * b[2] + b[1] * a[2], a[2] * b[2])
RSub(a, b) == Rat(a[1] * b[2] - b[1] * a[2], a[2] * b[2])
RMul(a, b) == Rat(a[1] * b[1], a[2] * b[2])
RDiv(a, b) == Rat(a[1] * b[2], a[2] * b[1])
RLess(a, b) == a[1] * b[2] < b[1] * a[2]
RMax(a, b) == IF RLess(a, b) THEN b ELSE a

\* Color_t: <<r, g, b>> with the componentwise operators of the code.
Color(x) == <<x, x, x>>
Black == Color(R0)
White == Color(R1)
CAdd(a, b) == <<RAdd(a[1], b[1]), RAdd(a[2], b[2]), RAdd(a[3], b[3])>>
CSub(a, b) == <<RSub(a[1], b[1]), RSub(a[2], b[2]), RSub(a[3], b[3])>>
CMul(a, b) == <<RMul(a[1], b[1]), RMul(a[2], b[2]), RMul(a[3], b[3])>>
CScale(a, x) == <<RMul(a[1], x), RMul(a[2], x), RMul(a[3], x)>>

(***************************************************************************)
(* Host/Device scene bridge: initializeGPUData.                            *)
(***************************************************************************)
\* Capacity of d_spheres[16] and d_planes[16].
CAPACITY == 16

\* Scenes are built with 0..MaxSmall objects of a kind, or with
\* CAPACITY..CAPACITY+MaxOver of them.
MaxSmall == 1
MaxOver == 1

\* A pointer to an object array, and the null pointer.
Ptr(objs) == [null |-> FALSE, objs |-> objs]
NULL == [null |-> TRUE, objs |-> <<>>]

KindCounts == (0 .. MaxSmall) \cup (CAPACITY .. CAPACITY + MaxOver)

\* Host cameras: position and basis are opaque ids, fov is in degrees.
Cameras ==
    { [position |-> 1, forward |-> 1, right |-> 1, up |-> 1,
       fov |-> 60, width |-> 4, height |-> 2],
      [position |-> 2, forward |-> 2, right |-> 2, up |-> 2,
       fov |-> 90, width |-> 2, height |-> 2] }

\* Zero-initialised __constant__ storage.
ZeroCamera == [origin |-> 0, forward |-> 0, right |-> 0, up |-> 0,
               fov |-> R0, width |-> 0, height |-> 0]
ZeroSphere == [center |-> 0, radius |-> 0, material |-> 0,
               is_emissive |-> FALSE, emission |-> 0]
ZeroPlane == [point |-> 0, normal |-> 0, material |-> 0]

\* An implicit object of the scene; geom identifies its geometry and material.
Object(kind, geom) ==
    [kind |-> kind, geom |-> geom,
     emissive |-> (geom % 4 = 0), emission_color |-> geom, emission_strength |-> 2]

\* The object list with ns spheres and np planes: an object that is neither
\* comes first, then spheres and planes alternate while both kinds last.
RECURSIVE Alternate(_, _, _)
Alternate(ns, np, i) ==
    IF i > ns /\ i > np THEN <<>>
    ELSE (IF i <= ns THEN <<Object("sphere", 2 * i)>> ELSE <<>>)
         \o (IF i <= np THEN <<Object("plane", 2 * i + 1)>> ELSE <<>>)
         \o Alternate(ns, np, i + 1)

ObjectList(ns, np) == <<Object("other", 1)>> \o Alternate(ns, np, 1)

\* Device-resident Scene_t snapshots: count and pointer consistent, or the
\* pointer null, or the count not positive.
Scenes ==
    LET lists == { ObjectList(ns, np) : ns \in KindCounts, np \in KindCounts }
    IN  { [is_null |-> FALSE, implicit_object_count |-> Len(objs),
           d_implicit_objects |-> Ptr(objs)] : objs \in lists }
        \cup { [is_null |-> FALSE, implicit_object_count |-> c,
                d_implicit_objects |-> NULL] : c \in {0, 2} }
        \cup { [is_null |-> FALSE, implicit_object_count |-> c,
                d_implicit_objects |-> Ptr(ObjectList(1, 1))] : c \in {-1, 0} }

\* The null scene handle.
NullScene == [is_null |-> TRUE, implicit_object_count |-> 0,
              d_implicit_objects |-> NULL]

SceneHandles == {NullScene} \cup Scenes

\* Camera_t -> GPUCamera; fov is stored in radians, here in units of pi.
ToGPUCamera(camera) ==
    [origin |-> camera.position, forward |-> camera.forward,
     right |-> camera.right, up |-> camera.up,
     fov |-> RMul(Rat(camera.fov, 1), Rat(1, 180)),
     width |-> camera.width, height |-> camera.height]

\* Sphere_t -> GPUSphere; emission is colour * strength, or zero.
ToGPUSphere(obj) ==
    [center |-> obj.geom, radius |-> obj.geom, material |-> obj.geom,
     is_emissive |-> obj.emissive,
     emission |-> IF obj.emissive
                  THEN obj.emission_color * obj.emission_strength ELSE 0]

\* Plane_t -> GPUPlane.
ToGPUPlane(obj) ==
    [point |-> obj.geom, normal |-> obj.geom, material |-> obj.geom]

\* The two conversion loops: the spheres, then the planes, of the object
\* array in array order.
RECURSIVE ToGPUSpheres(_)
ToGPUSpheres(objs) ==
    IF objs = <<>> THEN <<>>
    ELSE (IF Head(objs).kind = "sphere" THEN <<ToGPUSphere(Head(objs))>> ELSE <<>>)
         \o ToGPUSpheres(Tail(objs))

RECURSIVE ToGPUPlanes(_)
ToGPUPlanes(objs) ==
    IF objs = <<>> THEN <<>>
    ELSE (IF Head(objs).kind = "plane" THEN <<ToGPUPlane(Head(objs))>> ELSE <<>>)
         \o ToGPUPlanes(Tail(objs))

\* cudaMemcpyToSymbol(symbol, data, n * sizeof(elem)) into an array of
\* CAPACITY elements: the first n elements are overwritten; a copy larger
\* than the symbol is rejected with cudaErrorInvalidValue, which the caller
\* ignores, and the symbol keeps its contents.
CopyToSymbol(symbol, data) ==
    IF Len(data) > CAPACITY THEN symbol
    ELSE [i \in 0 .. CAPACITY - 1 |->
            IF i < Len(data) THEN data[i + 1] ELSE symbol[i]]

IsEmptyScene(h_scene) ==
    h_scene.implicit_object_count <= 0 \/ h_scene.d_implicit_objects = NULL

\* A variant that zeroes only the sphere count.
UploadEmpty_SpheresOnly ==
    /\ d_num_spheres' = 0
    /\ UNCHANGED <<d_num_planes, d_spheres, d_planes>>

\* The early return of an empty scene: both counts are published as zero.
UploadEmpty ==
    /\ d_num_spheres' = 0
    /\ d_num_planes' = 0
    /\ UNCHANGED <<d_spheres, d_planes>>

\* Publication of the flattened object arrays and their counts.
UploadObjects(h_spheres, h_planes) ==
    /\ d_num_spheres' = Len(h_spheres)
    /\ d_spheres' = IF Len(h_spheres) > 0
                    THEN CopyToSymbol(d_spheres, h_spheres) ELSE d_spheres
    /\ d_num_planes' = Len(h_planes)
    /\ d_planes' = IF Len(h_planes) > 0
                   THEN CopyToSymbol(d_planes, h_planes) ELSE d_planes

\* The body after the null check: the camera is published, then the objects.
UploadScene(camera, h_scene) ==
    LET objs == h_scene.d_implicit_objects.objs
        h_spheres == ToGPUSpheres(objs)
        h_planes == ToGPUPlanes(objs)
    IN  /\ d_camera' = ToGPUCamera(camera)
        /\ IF IsEmptyScene(h_scene)
           THEN UploadEmpty
           ELSE UploadObjects(h_spheres, h_planes)
        /\ upload_result' = "ok"

\* A variant that publishes the camera before it checks the handle.
initializeGPUData_CameraFirst(camera, d_scene) ==
    IF d_scene.is_null
    THEN /\ d_camera' = ToGPUCamera(camera)
         /\ upload_result' = "error"
         /\ UNCHANGED <<d_spheres, d_planes, d_num_spheres, d_num_planes>>
    ELSE UploadScene(camera, d_scene)

\* The null handle throws before anything is read or published; no later
\* step throws (the device copies of a valid handle succeed).
initializeGPUData(camera, d_scene) ==
    IF d_scene.is_null
    THEN /\ upload_result' = "error"
         /\ UNCHANGED <<d_camera, d_spheres, d_planes, d_num_spheres, d_num_planes>>
    ELSE UploadScene(camera, d_scene)

InitBridge ==
    /\ d_camera = ZeroCamera
    /\ d_spheres = [i \in 0 .. CAPACITY - 1 |-> ZeroSphere]
    /\ d_planes = [i \in 0 .. CAPACITY - 1 |-> ZeroPlane]
    /\ d_num_spheres = 0
    /\ d_num_planes = 0
    /\ upload_result = "none"

Upload == \E camera \in Cameras, d_scene \in SceneHandles :
              /\ initializeGPUData(camera, d_scene)
              /\ UNCHANGED <<query_vars, trace_vars, render_vars, aging_vars>>

(***************************************************************************)
(* Geometry and intersection: intersectSphere, intersectPlane,             *)
(* intersectScene.                                                         *)
(***************************************************************************)
\* Largest number of spheres and planes together in the scenes that are
\* queried.
MaxObjects == 3
\* Hit distances are 1 .. MaxDist.
MaxDist == 2

\* Stand-in for FLOAT_MAX: above every valid hit distance.
FLOAT_MAX == 2147483647

\* The scenes that are queried.
SmallScenes ==
    { [is_null |-> FALSE,
       implicit_object_count |-> Len(ObjectList(c[1], c[2])),
       d_implicit_objects |-> Ptr(ObjectList(c[1], c[2]))] :
          c \in { k \in (0 .. MaxObjects) \X (0 .. MaxObjects) :
                     k[1] + k[2] <= MaxObjects } }

\* Outcome of the root computation of a hit test for the current ray: no
\* valid root, or the accepted distance (for which isValidDistance holds).
Roots == {0} \cup (1 .. MaxDist)
NoRoot == 0

\* Intersection_t with hit = false; the other fields are not read.
NoHit == [hit |-> FALSE, distance |-> 0, material |-> 0, emission |-> 0]

\* intersectSphere for a ray whose accepted root is root.
intersectSphere(root, sphere) ==
    IF root = NoRoot THEN NoHit
    ELSE [hit |-> TRUE, distance |-> root, material |-> sphere.material,
          emission |-> IF sphere.is_emissive THEN sphere.emission ELSE 0]

\* intersectPlane for a ray whose accepted distance is root.
intersectPlane(root, plane) ==
    IF root = NoRoot THEN NoHit
    ELSE [hit |-> TRUE, distance |-> root, material |-> plane.material,
          emission |-> 0]

\* The hit tests are compared with a non-strict inequality.
CloserLax(isect, closest_dist) == isect.hit /\ isect.distance <= closest_dist

\* The test of both scan loops: a hit strictly closer than the closest so far.
Closer(isect, closest_dist) == isect.hit /\ isect.distance < closest_dist

\* The sphere loop from index i on; best is <<closest_dist, closest_hit>>.
RECURSIVE ScanSpheres(_, _, _)
ScanSpheres(roots, i, best) ==
    IF i >= d_num_spheres THEN best
    ELSE LET sphere_isect == intersectSphere(roots[i], d_spheres[i])
         IN  ScanSpheres(roots, i + 1,
                 IF Closer(sphere_isect, best[1])
                 THEN <<sphere_isect.distance, sphere_isect>> ELSE best)

\* The plane loop from index i on.
RECURSIVE ScanPlanes(_, _, _)
ScanPlanes(roots, i, best) ==
    IF i >= d_num_planes THEN best
    ELSE LET plane_isect == intersectPlane(roots[i], d_planes[i])
         IN  ScanPlanes(roots, i + 1,
                 IF Closer(plane_isect, best[1])
                 THEN <<plane_isect.distance, plane_isect>> ELSE best)

\* intersectScene for a ray with the given roots per sphere and per plane.
intersectScene(sroots, proots) ==
    ScanPlanes(proots, 0, ScanSpheres(sroots, 0, <<FLOAT_MAX, NoHit>>))[2]

\* Root tables of the published spheres and planes.
SphereRoots == [0 .. d_num_spheres - 1 -> Roots]
PlaneRoots == [0 .. d_num_planes - 1 -> Roots]

\* One scene query of a ray.
Query ==
    /\ d_num_spheres <= CAPACITY
    /\ d_num_planes <= CAPACITY
    /\ \E sroots \in SphereRoots, proots \in PlaneRoots :
          /\ sphere_tests' = [i \in DOMAIN sroots |->
                                intersectSphere(sroots[i], d_spheres[i])]
          /\ plane_tests' = [i \in DOMAIN proots |->
                               intersectPlane(proots[i], d_planes[i])]
          /\ closest_hit' = intersectScene(sroots, proots)
    /\ UNCHANGED <<bridge_vars, trace_vars, render_vars, aging_vars>>

\* The upload of the scene that is queried.
UploadSmall ==
    /\ upload_result = "none"
    /\ \E d_scene \in SmallScenes :
          initializeGPUData(CHOOSE camera \in Cameras : camera.fov = 60, d_scene)
    /\ UNCHANGED <<query_vars, trace_vars, render_vars, aging_vars>>

InitQuery ==
    /\ sphere_tests = <<>>
    /\ plane_tests = <<>>
    /\ closest_hit = NoHit

(***************************************************************************)
(* Path integrator: traceRay.                                              *)
(***************************************************************************)
\* max_depth arguments are 0, 1 and MaxDepth.
MaxDepth == 5

TraceDepths == {0, 1, MaxDepth}

\* What the hit material returns: emitted(), scatter() with the fields of
\* the scatter record, and scatteringPdf().
Emissions == {Black, White}
Attenuations == {<<R1, Rat(1, 2), R0>>, Black}
ScatteringPdfs == {Rat(1, 2)}
SamplePdfs == {Rat(1, 2), R1}
\* curand_uniform returns a value in (0, 1].
Uniforms == {Rat(1, 4), R1}

\* The scenes that are traced, and the camera they are uploaded with.
TraceScenes ==
    { [is_null |-> FALSE, implicit_object_count |-> Len(ObjectList(n, n)),
       d_implicit_objects |-> Ptr(ObjectList(n, n))] : n \in {0, 1} }
TraceCamera == CHOOSE camera \in Cameras : camera.fov = 60

\* No iteration executed yet.
NoIter == [depth |-> -1, hit |-> FALSE, emitted |-> Black, scattered |-> FALSE,
           is_specular |-> FALSE, attenuation |-> Black, bsdf |-> R0,
           pdf |-> R0, query_ray |-> -1, pdf_rays |-> <<-1, -1>>,
           roulette |-> FALSE, p |-> R0, u |-> R0, calls |-> <<>>,
           exit |-> "none"]

\* Number of loop iterations entered so far.
Iterations == t_iter.depth + 1

\* fmaxf(throughput.r, fmaxf(throughput.g, throughput.b))
MaxComponent(c) == RMax(c[1], RMax(c[2], c[3]))

\* The roulette guard with the threshold one bounce early.
RouletteDepth_Early(depth) == depth >= 3

\* Russian roulette is applied at bounce indices above 3.
RouletteDepth(depth) == depth > 3

\* The roulette test inverted: the path ends when the sample is below p.
RouletteKills_Inverted(u, p) == RLess(u, p)

\* if (curand_uniform(rand_state) > p) break;
RouletteKills(u, p) == RLess(p, u)

\* Float values outside the rationals: 1.0f / 0 and 0 * inf.
Inf == <<1, 0>>
NaN == <<0, 0>>

\* 1.0f / p
Reciprocal(p) == IF p = R0 THEN Inf ELSE RDiv(R1, p)

\* x * r for a rational x and r a rational or Inf.
FMul(x, r) ==
    IF r # Inf THEN RMul(x, r)
    ELSE IF x = R0 THEN NaN
    ELSE IF RLess(x, R0) THEN <<-1, 0>> ELSE Inf

\* throughput *= 1.0f / p
Rescale(throughput, p) ==
    LET r == Reciprocal(p)
    IN  <<FMul(throughput[1], r), FMul(throughput[2], r), FMul(throughput[3], r)>>

\* The loop condition, off by one.
LoopCondition_Inclusive(depth, max_depth) == depth <= max_depth

\* for (depth = 0; depth < max_depth; depth++)
LoopCondition(depth, max_depth) == depth < max_depth

\* A variant that breaks on a miss only after the emitted light was added.
MissBreaks_Late(isect) == FALSE

\* if (!isect.hit) break;
MissBreaks(isect) == ~isect.hit

TraceStart ==
    /\ t_pc \in {"idle", "done"}
    /\ d_num_spheres <= CAPACITY
    /\ d_num_planes <= CAPACITY
    /\ \E max_depth \in TraceDepths : t_max_depth' = max_depth
    /\ t_pc' = "loop"
    /\ t_depth' = 0
    /\ t_ray' = 0
    /\ t_throughput' = White
    /\ t_final_color' = Black
    /\ t_result' = Black
    /\ t_iter' = NoIter
    /\ UNCHANGED <<bridge_vars, query_vars, render_vars, aging_vars>>

\* One iteration of the bounce loop that ends in a break.
Break(iter, final_color, why) ==
    /\ t_pc' = "done"
    /\ t_iter' = [iter EXCEPT !.exit = why]
    /\ t_final_color' = final_color
    /\ t_result' = final_color
    /\ UNCHANGED <<t_depth, t_ray, t_throughput, t_max_depth>>

\* One iteration that goes on to the next (continue, or the end of the body).
Continue(iter, final_color, throughput, ray) ==
    /\ t_pc' = "loop"
    /\ t_iter' = iter
    /\ t_final_color' = final_color
    /\ t_throughput' = throughput
    /\ t_ray' = ray
    /\ t_depth' = t_depth + 1
    /\ UNCHANGED <<t_result, t_max_depth>>

\* The loop body for the current ray; scattered rays are numbered by the
\* bounce that produced them.
TraceBounce ==
    /\ t_pc = "loop"
    /\ LoopCondition(t_depth, t_max_depth)
    /\ \E sroots \in SphereRoots, proots \in PlaneRoots :
        LET isect == intersectScene(sroots, proots)
            it0 == [NoIter EXCEPT !.depth = t_depth, !.hit = isect.hit,
                                  !.query_ray = t_ray]
        IN  IF MissBreaks(isect)
            THEN Break(it0, t_final_color, "miss")
            ELSE \E emitted \in Emissions, scattered \in BOOLEAN :
                 LET final_color == CAdd(t_final_color, CMul(t_throughput, emitted))
                     it1 == [it0 EXCEPT !.emitted = emitted, !.scattered = scattered,
                                       !.calls = <<"emitted", "scatter">>]
                 IN  IF ~scattered
                     THEN Break(it1, final_color, "absorbed")
                     ELSE \E is_specular \in BOOLEAN, attenuation \in Attenuations :
                          LET scattered_ray == t_depth + 1
                              it2 == [it1 EXCEPT !.is_specular = is_specular,
                                                 !.attenuation = attenuation]
                          IN  IF is_specular
                              THEN Continue(it2, final_color,
                                            CMul(t_throughput, attenuation),
                                            scattered_ray)
                              ELSE \E bsdf \in ScatteringPdfs, pdf \in SamplePdfs :
                                   LET ray == scattered_ray
                                       brdf == CScale(attenuation, bsdf)
                                       throughput ==
                                           CMul(t_throughput,
                                                CScale(brdf, RDiv(R1, pdf)))
                                       it3 == [it2 EXCEPT !.bsdf = bsdf, !.pdf = pdf,
                                                  !.pdf_rays = <<ray, scattered_ray>>,
                                                  !.calls = @ \o <<"scatteringPdf">>]
                                   IN  IF RouletteDepth(t_depth)
                                       THEN \E u \in Uniforms :
                                            LET p == MaxComponent(throughput)
                                                it4 == [it3 EXCEPT !.roulette = TRUE,
                                                                   !.p = p, !.u = u]
                                            IN  IF RouletteKills(u, p)
                                                THEN Break(it4, final_color, "roulette")
                                                ELSE Continue(it4, final_color,
                                                       Rescale(throughput, p), ray)
                                       ELSE Continue(it3, final_color, throughput, ray)
    /\ UNCHANGED <<bridge_vars, query_vars, render_vars, aging_vars>>

\* The loop condition fails: return final_color.
TraceReturn ==
    /\ t_pc = "loop"
    /\ ~LoopCondition(t_depth, t_max_depth)
    /\ t_pc' = "done"
    /\ t_result' = t_final_color
    /\ t_iter' = [t_iter EXCEPT !.exit = "depth"]
    /\ UNCHANGED <<t_depth, t_ray, t_throughput, t_final_color, t_max_depth>>
    /\ UNCHANGED <<bridge_vars, query_vars, render_vars, aging_vars>>

InitTrace ==
    /\ t_pc = "idle"
    /\ t_max_depth = 0
    /\ t_depth = 0
    /\ t_ray = 0
    /\ t_throughput = White
    /\ t_final_color = Black
    /\ t_result = Black
    /\ t_iter = NoIter

\* An upload between two traces.
UploadTrace ==
    /\ t_pc \in {"idle", "done"}
    /\ \E d_scene \in TraceScenes : initializeGPUData(TraceCamera, d_scene)
    /\ t_pc' = "idle"
    /\ UNCHANGED <<t_max_depth, t_depth, t_ray, t_throughput, t_final_color,
                   t_result, t_iter>>
    /\ UNCHANGED <<query_vars, render_vars, aging_vars>>

(***************************************************************************)
(* Frame accumulator: renderKernel and launchRenderKernel.                 *)
(***************************************************************************)
\* Images are 1..MaxWidth by 1..MaxHeight; grid and block dimensions are
\* 1..MaxDim with at most MaxThreads threads in a launch; frame_count is
\* 0..MaxFrame.
MaxWidth == 2
MaxHeight == 2
MaxDim == 2
MaxThreads == 4
MaxFrame == 2
MaxRun == 4

\* dim3 values with z = 1.
Dims == (1 .. MaxDim) \X (1 .. MaxDim)

\* Radiance values traceRay returns for a non-empty scene.
Samples == {Black, <<R1, Rat(1, 2), R0>>}

\* Contents of a cell of a freshly allocated buffer.
Garbage == {<<R0, R0, R0, R0>>, <<Rat(3, 1), R1, Rat(1, 2), Rat(5, 1)>>}

\* The threads <<blockIdx.x, blockIdx.y, threadIdx.x, threadIdx.y>> of a launch.
Threads(g, b) ==
    (0 .. g[1] - 1) \X (0 .. g[2] - 1) \X (0 .. b[1] - 1) \X (0 .. b[2] - 1)

\* x = blockIdx.x * blockDim.x + threadIdx.x, and y likewise.
ThreadX(th) == th[1] * block[1] + th[3]
ThreadY(th) == th[2] * block[2] + th[4]

\* The bounds check, off by one in x.
OutOfRange_OffByOne(x, y) == x > width \/ y >= height

\* if (x >= width || y >= height) return;
OutOfRange(x, y) == x >= width \/ y >= height

\* pixel_index = y * width + x
PixelIndex(x, y) == y * width + x

\* The weight of the new sample taken as 1 / frame_count.
BlendWeight_NoPlusOne(fc) == Rat(1, fc)

\* t = 1.0f / (frame_count + 1), for frame counts far below 2^32 - 1.
BlendWeight(fc) == Rat(1, fc + 1)

\* The blend with the two weights exchanged.
Blend_Swapped(pixel_color, prev_color, fc) ==
    LET t == BlendWeight(fc)
    IN  CAdd(CScale(pixel_color, RSub(R1, t)),
             CScale(<<prev_color[1], prev_color[2], prev_color[3]>>, t))

\* pixel_color * t + Color_t(prev_color.x, prev_color.y, prev_color.z) * (1 - t)
Blend(pixel_color, prev_color, fc) ==
    LET t == BlendWeight(fc)
    IN  CAdd(CScale(pixel_color, t),
             CScale(<<prev_color[1], prev_color[2], prev_color[3]>>, RSub(R1, t)))

\* make_float4(pixel_color.r, pixel_color.g, pixel_color.b, 1.0f)
MakeFloat4(c) == <<c[1], c[2], c[3], R1>>

\* float4 prev_color = output[pixel_index]; a read outside the buffer yields
\* any value.
ReadCell(pixel_index) ==
    IF pixel_index \in DOMAIN output THEN {output[pixel_index]} ELSE Garbage

\* What traceRay returns for the published scene: black for the empty scene.
TraceResults ==
    IF d_num_spheres = 0 /\ d_num_planes = 0 THEN {Black} ELSE Samples

\* No kernel has been launched on the buffer yet.
NotLaunched == DOMAIN r_pc = {}

\* launchRenderKernel on the buffer, after the upload.
launchRenderKernel(fc, g, b) ==
    /\ NotLaunched
    /\ d_num_spheres <= CAPACITY
    /\ d_num_planes <= CAPACITY
    /\ frame_count' = fc
    /\ grid' = g
    /\ block' = b
    /\ r_pc' = [th \in Threads(g, b) |-> "start"]
    /\ r_sample' = [th \in Threads(g, b) |-> Black]
    /\ r_pixel_color' = [th \in Threads(g, b) |-> Black]
    /\ r_access' = {}
    /\ UNCHANGED <<width, height, output, f_samples, rand_log>>

Launch ==
    /\ \E fc \in 0 .. MaxFrame, g \in Dims, b \in Dims :
          /\ g[1] * g[2] * b[1] * b[2] <= MaxThreads
          /\ launchRenderKernel(fc, g, b)
    /\ UNCHANGED <<bridge_vars, query_vars, trace_vars, aging_vars>>

\* renderKernel up to the read of the cell: the bounds check, the trace of
\* the camera ray and, for frame_count > 0, the read of the prior contents.
ThreadTrace(th) ==
    /\ r_pc[th] = "start"
    /\ LET x == ThreadX(th)
           y == ThreadY(th)
           pixel_index == PixelIndex(x, y)
       IN  IF OutOfRange(x, y)
           THEN /\ r_pc' = [r_pc EXCEPT ![th] = "done"]
                /\ UNCHANGED <<r_sample, r_pixel_color, r_access>>
           ELSE \E traced \in TraceResults, prev_color \in ReadCell(pixel_index) :
                /\ r_pc' = [r_pc EXCEPT ![th] = "traced"]
                /\ r_sample' = [r_sample EXCEPT ![th] = traced]
                /\ IF frame_count > 0
                   THEN /\ r_pixel_color' =
                             [r_pixel_color EXCEPT ![th] =
                                 Blend(traced, prev_color, frame_count)]
                        /\ r_access' = r_access \cup
                             {[thread |-> th, cell |-> pixel_index, op |-> "read"]}
                   ELSE /\ r_pixel_color' = [r_pixel_color EXCEPT ![th] = traced]
                        /\ UNCHANGED r_access
    /\ UNCHANGED <<width, height, frame_count, grid, block, output, f_samples,
                   rand_log>>
    /\ UNCHANGED <<bridge_vars, query_vars, trace_vars, aging_vars>>

\* output[pixel_index] = make_float4(...)
ThreadWrite(th) ==
    /\ r_pc[th] = "traced"
    /\ LET pixel_index == PixelIndex(ThreadX(th), ThreadY(th))
       IN  /\ output' = [output EXCEPT ![pixel_index] = MakeFloat4(r_pixel_color[th])]
           /\ r_access' = r_access \cup
                 {[thread |-> th, cell |-> pixel_index, op |-> "write"]}
    /\ r_pc' = [r_pc EXCEPT ![th] = "done"]
    /\ UNCHANGED <<width, height, frame_count, grid, block, r_sample,
                   r_pixel_color, f_samples, rand_log>>
    /\ UNCHANGED <<bridge_vars, query_vars, trace_vars, aging_vars>>

\* The upload that precedes the launch.
UploadRender ==
    /\ NotLaunched
    /\ \E d_scene \in TraceScenes : initializeGPUData(TraceCamera, d_scene)
    /\ UNCHANGED <<query_vars, trace_vars, render_vars, aging_vars>>

\* One whole launch of renderKernel with frame count fc on a one-pixel image
\* with a single thread, run to completion: frames are launched in order,
\* and a launch with frame count 0 starts a new accumulation.
RenderFrame(fc) ==
    /\ NotLaunched
    /\ d_num_spheres <= CAPACITY
    /\ d_num_planes <= CAPACITY
    /\ fc = 0 \/ (f_samples # <<>> /\ fc = frame_count + 1)
    /\ LET th == <<0, 0, 0, 0>>
           x == ThreadX(th)
           y == ThreadY(th)
           pixel_index == PixelIndex(x, y)
       IN  /\ ~OutOfRange(x, y)
           /\ \E traced \in TraceResults, prev_color \in ReadCell(pixel_index) :
                 LET pixel_color == IF fc > 0
                                    THEN Blend(traced, prev_color, fc)
                                    ELSE traced
                 IN  /\ output' = [output EXCEPT
                                      ![pixel_index] = MakeFloat4(pixel_color)]
                     /\ f_samples' = IF fc = 0 THEN <<traced>>
                                     ELSE Append(f_samples, traced)
    /\ frame_count' = fc
    /\ UNCHANGED <<width, height, grid, block, r_pc, r_sample, r_pixel_color,
                   r_access, rand_log>>
    /\ UNCHANGED <<bridge_vars, query_vars, trace_vars, aging_vars>>

Accumulate == \E fc \in 0 .. MaxRun : RenderFrame(fc)

\* uint32_t values as four bytes, least significant first.
Byte == 2 ^ 8

U32(n) == <<n % Byte, (n \div Byte) % Byte, (n \div (Byte * Byte)) % Byte,
            (n \div (Byte * Byte * Byte)) % Byte>>

\* The four low bytes of a number given by its column sums: the carry out
\* of the top byte is dropped (arithmetic modulo 2^32).
Wrap(c) ==
    LET k1 == c[1] \div Byte
        k2 == (c[2] + k1) \div Byte
        k3 == (c[3] + k2) \div Byte
    IN  <<c[1] % Byte, (c[2] + k1) % Byte, (c[3] + k2) % Byte,
          (c[4] + k3) % Byte>>

\* a + b on uint32_t
UAdd(a, b) == Wrap(<<a[1] + b[1], a[2] + b[2], a[3] + b[3], a[4] + b[4]>>)

\* a * b on uint32_t
UMul(a, b) ==
    Wrap(<<a[1] * b[1],
           a[1] * b[2] + a[2] * b[1],
           a[1] * b[3] + a[2] * b[2] + a[3] * b[1],
           a[1] * b[4] + a[2] * b[3] + a[3] * b[2] + a[4] * b[1]>>)

\* The uint32_t with only bit e set.
Bit(e) == [i \in 1 .. 4 |-> IF i = (e \div 8) + 1 THEN 2 ^ (e % 8) ELSE 0]

\* frame_count values of a launch: small ones and ones near the top of the
\* uint32_t range.
FrameCounts ==
    {U32(0), U32(1), U32(2), Bit(30), Bit(31), UAdd(Bit(31), U32(1)),
     UAdd(Bit(31), Bit(30))}

\* The seed argument of initRand without the factor height.
KernelSeed_NoHeight(fc, pixel_index) ==
    UAdd(UMul(fc, U32(width)), U32(pixel_index))

\* frame_count * width * height + pixel_index
KernelSeed(fc, pixel_index) ==
    UAdd(UMul(UMul(fc, U32(width)), U32(height)), U32(pixel_index))

\* initRand: offset = idy * gridDim.x * blockDim.x + idx, and the seed of
\* curand_init is seed + offset.
initRand(seed, idx, idy) ==
    LET offset == UAdd(UMul(UMul(U32(idy), U32(grid[1])), U32(block[1])),
                       U32(idx))
    IN  UAdd(seed, offset)

\* renderKernel of thread th in a launch with frame count fc, up to the
\* seeding of its generator; the log keeps the last two seedings of the
\* thread.
SeedThread(fc, th) ==
    /\ NotLaunched
    /\ rand_log # <<>> => rand_log[1].thread = th
    /\ LET x == ThreadX(th)
           y == ThreadY(th)
           pixel_index == PixelIndex(x, y)
           seeding == [thread |-> th, frame_count |-> fc,
                       seed |-> initRand(KernelSeed(fc, pixel_index), x, y)]
       IN  /\ ~OutOfRange(x, y)
           /\ rand_log' = IF rand_log = <<>> THEN <<seeding>>
                          ELSE <<rand_log[Len(rand_log)], seeding>>
    /\ UNCHANGED <<width, height, frame_count, grid, block, output, r_pc,
                   r_sample, r_pixel_color, r_access, f_samples>>
    /\ UNCHANGED <<bridge_vars, query_vars, trace_vars, aging_vars>>

Seed == \E fc \in FrameCounts, th \in Threads(grid, block) : SeedThread(fc, th)

\* Before the first launch: no thread, a buffer of width * height cells.
InitRenderIdle ==
    /\ frame_count = 0
    /\ grid = <<1, 1>>
    /\ block = <<1, 1>>
    /\ r_pc = <<>>
    /\ r_sample = <<>>
    /\ r_pixel_color = <<>>
    /\ r_access = {}
    /\ f_samples = <<>>
    /\ rand_log = <<>>

InitRenderNone ==
    /\ width = 1
    /\ height = 1
    /\ output = [i \in 0 .. 0 |-> <<R0, R0, R0, R0>>]
    /\ InitRenderIdle

InitRender ==
    /\ width \in 1 .. MaxWidth
    /\ height \in 1 .. MaxHeight
    /\ \E g \in Garbage : output = [i \in 0 .. width * height - 1 |-> g]
    /\ InitRenderIdle

(***************************************************************************)
(* Aging transform: noise and AgingEffects::applyRustEffect.               *)
(***************************************************************************)
\* Arguments of the rust effect.
BaseColors == {White, <<R1, Rat(1, 2), R0>>}
Points == {<<0, 0, 0>>, <<1, 2, 3>>}
PatternScales == {1, 2}
OxidationLevels == {R0, Rat(1, 2), R1}
SurfaceRoughnesses == {R0, Rat(1, 2)}
RustColors == {<<Rat(3, 5), Rat(1, 5), Rat(1, 10)>>, Black}

\* Values of hash, in [0, 1).
NoiseValues == {R0, Rat(1, 4), Rat(3, 4)}

\* point * scalar
PScale(point, x) == <<point[1] * x, point[2] * x, point[3] * x>>

\* The points noise is sampled at.
NoisePoints == { PScale(pt, sc) : pt \in Points, sc \in PatternScales }

\* noise(point): a fixed function of the point with values of hash.
noise(point) == noise_field[point]

\* lerp(a, b, t) = a + (b - a) * t
lerp(a, b, t) == CAdd(a, CScale(CSub(b, a), t))

\* The roughness factor taken from surface_roughness alone.
applyRustEffect_RoughnessUnscaled(base_color, point, params) ==
    LET pattern == noise(PScale(point, params.pattern_scale))
        rust_amount == RMul(pattern, params.oxidation_level)
        rusted_color == lerp(base_color, params.rust_color, rust_amount)
        roughness_factor == RAdd(R1, params.surface_roughness)
    IN  CScale(rusted_color, RDiv(R1, roughness_factor))

\* AgingEffects::applyRustEffect; the noise_value argument is not used.
applyRustEffect(base_color, point, params) ==
    LET pattern == noise(PScale(point, params.pattern_scale))
        rust_amount == RMul(pattern, params.oxidation_level)
        rusted_color == lerp(base_color, params.rust_color, rust_amount)
        roughness_factor == RAdd(R1, RMul(params.surface_roughness, rust_amount))
    IN  CScale(rusted_color, RDiv(R1, roughness_factor))

\* RustParameters values.
RustParams ==
    [oxidation_level : OxidationLevels, surface_roughness : SurfaceRoughnesses,
     pattern_scale : PatternScales, rust_color : RustColors]

NoRustParams == [oxidation_level |-> R0, surface_roughness |-> R0,
                 pattern_scale |-> 1, rust_color |-> Black]

\* One shading-time call of the rust effect.
Rust ==
    /\ \E base_color \in BaseColors, point \in Points, params \in RustParams :
          /\ rust_call' = [called |-> TRUE, base_color |-> base_color,
                            point |-> point, params |-> params]
          /\ rust_result' = applyRustEffect(base_color, point, params)
    /\ UNCHANGED noise_field
    /\ UNCHANGED <<bridge_vars, query_vars, trace_vars, render_vars>>

InitAgingIdle ==
    /\ rust_call = [called |-> FALSE, base_color |-> Black, point |-> <<0, 0, 0>>,
                     params |-> NoRustParams]
    /\ rust_result = Black

InitAgingNone ==
    /\ noise_field = [pt \in NoisePoints |-> R0]
    /\ InitAgingIdle

InitAging ==
    /\ noise_field \in [NoisePoints -> NoiseValues]
    /\ InitAgingIdle

(***************************************************************************)
(* Specifications.                                                         *)
(***************************************************************************)
Init == InitBridge /\ InitQuery /\ InitTrace /\ InitRenderNone /\ InitAgingNone

\* The scene bridge alone.
Next == Upload

Spec == Init /\ [][Next]_vars

\* Scene queries of rays against an uploaded small scene.
NextScene == UploadSmall \/ Query

SpecScene == Init /\ [][NextScene]_vars

\* Traces of rays between uploads of an empty and a non-empty scene.
NextTrace == UploadTrace \/ TraceStart \/ TraceBounce \/ TraceReturn

SpecTrace == Init /\ [][NextTrace]_vars

\* The bounce loop is straight-line device code: a thread that has started
\* a trace keeps executing it.
SpecTraceFair ==
    SpecTrace /\ WF_vars(TraceBounce) /\ WF_vars(TraceReturn)

\* One render launch on a buffer with arbitrary prior contents, after the
\* uploads; the threads of the launch interleave.
InitSessions == InitBridge /\ InitQuery /\ InitTrace /\ InitRender /\ InitAgingNone

NextRender ==
    \/ UploadRender
    \/ Launch
    \/ \E th \in DOMAIN r_pc : ThreadTrace(th)
    \/ \E th \in DOMAIN r_pc : ThreadWrite(th)

SpecRender == InitSessions /\ [][NextRender]_vars

\* A run of launches on a one-pixel buffer with arbitrary prior contents.
InitFrames ==
    /\ InitBridge /\ InitQuery /\ InitTrace /\ InitAgingNone
    /\ width = 1
    /\ height = 1
    /\ \E g \in Garbage : output = [i \in 0 .. 0 |-> g]
    /\ InitRenderIdle

NextFrames == UploadRender \/ Accumulate

SpecFrames == InitFrames /\ [][NextFrames]_vars

\* Launches of one shape on one image size, each seeding the generator of
\* the same thread.
InitSeed ==
    /\ InitBridge /\ InitQuery /\ InitTrace /\ InitAgingNone
    /\ width \in 1 .. MaxWidth
    /\ height \in 1 .. MaxHeight
    /\ output = [i \in 0 .. width * height - 1 |-> <<R0, R0, R0, R0>>]
    /\ frame_count = 0
    /\ grid \in Dims
    /\ block \in Dims
    /\ grid[1] * grid[2] * block[1] * block[2] <= MaxThreads
    /\ r_pc = <<>>
    /\ r_sample = <<>>
    /\ r_pixel_color = <<>>
    /\ r_access = {}
    /\ f_samples = <<>>
    /\ rand_log = <<>>

NextSeed == Seed

SpecSeed == InitSeed /\ [][NextSeed]_vars

\* Calls of the rust effect over a fixed noise field.
InitRust == InitBridge /\ InitQuery /\ InitTrace /\ InitRenderNone /\ InitAging

NextRust == Rust

SpecRust == InitRust /\ [][NextRust]_vars

(***************************************************************************)
(* Claims about the scene bridge.                                          *)
(***************************************************************************)
published == <<d_camera, d_spheres, d_planes, d_num_spheres, d_num_planes>>

NumOfKind(d_scene, kind) ==
    Cardinality({ i \in DOMAIN d_scene.d_implicit_objects.objs :
                    d_scene.d_implicit_objects.objs[i].kind = kind })

\* C1: a call of initializeGPUData with the null scene handle ends in an
\* error and leaves d_camera, d_spheres, d_planes, d_num_spheres and
\* d_num_planes as they were, whatever was published before.
C1_NullSceneFailsUnmodified ==
    [][\A camera \in Cameras :
          initializeGPUData(camera, NullScene)
             => (upload_result' = "error" /\ published' = published)]_vars

\* A null-handle call has failed after a scene with objects was published.
C1_Witness ==
    /\ upload_result = "error"
    /\ d_num_spheres > 0
    /\ d_num_planes > 0
    /\ d_camera # ZeroCamera

\* C2: an upload of more than CAPACITY spheres or more than CAPACITY planes
\* ends in an error and does not publish a count above CAPACITY.
C2_OverCapacityIsError ==
    [][\A camera \in Cameras, d_scene \in Scenes :
          ( /\ ~IsEmptyScene(d_scene)
            /\ \/ NumOfKind(d_scene, "sphere") > CAPACITY
               \/ NumOfKind(d_scene, "plane") > CAPACITY
            /\ initializeGPUData(camera, d_scene) )
             => ( /\ upload_result' = "error"
                  /\ d_num_spheres' <= CAPACITY
                  /\ d_num_planes' <= CAPACITY )]_vars

\* C3: a call with a non-null handle whose object count is not positive or
\* whose object pointer is null returns without error with both published
\* counts zero, whatever the counts were.
C3_EmptySceneZeroCounts ==
    [][\A camera \in Cameras, d_scene \in Scenes :
          ( /\ \/ d_scene.implicit_object_count <= 0
               \/ d_scene.d_implicit_objects.null
            /\ initializeGPUData(camera, d_scene) )
             => ( /\ upload_result' = "ok"
                  /\ d_num_spheres' = 0
                  /\ d_num_planes' = 0 )]_vars

\* An empty upload has zeroed the counts of a scene published earlier, whose
\* stale entries are still in the arrays.
C3_Witness ==
    /\ upload_result = "ok"
    /\ d_num_spheres = 0
    /\ d_num_planes = 0
    /\ d_spheres[0] # ZeroSphere
    /\ d_planes[0] # ZeroPlane

(***************************************************************************)
(* Claims about the scene query.                                           *)
(***************************************************************************)
\* The hit tests of the last query in scan order: spheres by index, then
\* planes by index.
ScanOrder ==
    LET ns == Cardinality(DOMAIN sphere_tests)
        np == Cardinality(DOMAIN plane_tests)
    IN  [k \in 0 .. ns + np - 1 |->
            IF k < ns THEN sphere_tests[k] ELSE plane_tests[k - ns]]

\* C6: intersectScene returns hit = false iff no sphere test and no plane
\* test reports a hit; otherwise it returns a record of minimum distance over
\* all hits, and among the hits of that distance the first in scan order.
C6_ClosestFirstInScanOrder ==
    LET hits == { k \in DOMAIN ScanOrder : ScanOrder[k].hit }
    IN  /\ closest_hit.hit = FALSE <=> hits = {}
        /\ hits # {} =>
              \E k \in hits :
                 /\ closest_hit = ScanOrder[k]
                 /\ \A j \in hits : ScanOrder[k].distance <= ScanOrder[j].distance
                 /\ \A j \in hits : ScanOrder[j].distance = ScanOrder[k].distance
                                       => k <= j

\* A query in which a sphere and a plane hit at the same distance: the sphere
\* was returned.
C6_Witness ==
    /\ Cardinality(DOMAIN sphere_tests) >= 2
    /\ Cardinality(DOMAIN plane_tests) >= 1
    /\ sphere_tests[1].hit /\ plane_tests[0].hit /\ sphere_tests[0].hit
    /\ sphere_tests[1].distance = plane_tests[0].distance
    /\ sphere_tests[0].distance > sphere_tests[1].distance
    /\ closest_hit = sphere_tests[1]

(***************************************************************************)
(* Claims about the path integrator.                                       *)
(***************************************************************************)
\* C5: when the first scene query of a trace reports no hit, as it does for
\* every ray while d_num_spheres = d_num_planes = 0, traceRay stops at bounce
\* index 0 and returns black, and no emitted or scatter operation of a
\* material was evaluated.
C5_FirstMissReturnsBlack ==
    /\ (t_pc = "done" /\ t_iter.depth = 0 /\ ~t_iter.hit)
          => /\ t_iter.exit = "miss"
             /\ t_depth = 0
             /\ t_result = Black
             /\ t_iter.calls = <<>>
    /\ (t_pc \in {"loop", "done"} /\ d_num_spheres = 0 /\ d_num_planes = 0)
          => /\ t_depth = 0
             /\ ~t_iter.hit
             /\ t_iter.calls = <<>>
             /\ t_pc = "done" => (t_result = Black /\ t_iter.depth <= 0)

\* A trace with a positive depth budget over the empty scene has returned.
C5_Witness ==
    /\ t_pc = "done"
    /\ d_num_spheres = 0 /\ d_num_planes = 0
    /\ t_max_depth = MaxDepth
    /\ t_iter.exit = "miss"
    /\ t_iter.depth = 0

\* C8: a trace never enters more than max_depth loop iterations, a trace
\* that runs out of depth returns the radiance accumulated so far, and every
\* started trace returns.
C8_TraceTerminatesWithinMaxDepth ==
    /\ [](t_pc \in {"loop", "done"} => Iterations <= t_max_depth)
    /\ []((t_pc = "done" /\ t_iter.exit = "depth")
            => (t_depth = t_max_depth /\ t_result = t_final_color))
    /\ ((t_pc = "loop") ~> (t_pc = "done"))

\* A trace has used its whole depth budget after collecting emitted light.
C8_Witness ==
    /\ t_pc = "done"
    /\ t_iter.exit = "depth"
    /\ t_max_depth = MaxDepth
    /\ Iterations = MaxDepth
    /\ t_result # Black

\* A step that executes one iteration of the bounce loop.
BounceStep == t_pc = "loop" /\ t_iter'.depth = t_depth

\* C10: in an iteration of the bounce loop Russian roulette is performed iff
\* the bounce index is above 3 and the bounce scattered non-specularly; then
\* the path ends iff the uniform sample exceeds p, the largest component of
\* the updated throughput, and otherwise the throughput is divided by p. In
\* every other iteration roulette neither ends the path nor rescales the
\* throughput.
C10_RouletteOnlyAfterBounce3 ==
    [][BounceStep =>
        LET it == t_iter'
            eligible == it.depth > 3 /\ it.hit /\ it.scattered /\ ~it.is_specular
            pre == IF it.is_specular
                   THEN CMul(t_throughput, it.attenuation)
                   ELSE CMul(t_throughput,
                             CScale(it.attenuation, RDiv(it.bsdf, it.pdf)))
        IN  /\ it.depth = t_depth
            /\ it.roulette <=> eligible
            /\ eligible =>
                  /\ it.exit = "roulette" <=> RLess(MaxComponent(pre), it.u)
                  /\ it.exit # "roulette" =>
                        t_throughput' = CScale(pre, RDiv(R1, MaxComponent(pre)))
            /\ ~eligible =>
                  /\ it.exit # "roulette"
                  /\ it.scattered => t_throughput' = pre]_vars

\* A path has survived roulette and its throughput was rescaled.
C10_Witness ==
    /\ t_pc = "loop"
    /\ t_iter.roulette
    /\ t_iter.exit = "none"
    /\ t_iter.pdf = R1
    /\ MaxComponent(t_throughput) = R1

\* C11: at every non-specular bounce scatteringPdf is called with the ray
\* that arrived at the hit (the ray of that bounce's scene query) as its
\* first argument and the newly sampled continuation ray as its third.
C11_PdfRaysAreBeforeAndAfter ==
    (t_iter.depth >= 0 /\ t_iter.scattered /\ ~t_iter.is_specular)
        => /\ t_iter.pdf_rays[1] = t_iter.query_ray
           /\ t_iter.pdf_rays[2] = t_iter.depth + 1
           /\ t_iter.pdf_rays[1] # t_iter.pdf_rays[2]

\* C13: a path that survives the roulette test has p > 0, and a roulette
\* test with p = 0 ends the path, for every throughput with non-negative
\* components and every sample of curand_uniform; the rescaled throughput
\* is never the result of a division by zero.
C13_SurvivorHasPositiveP ==
    /\ t_iter.roulette =>
          /\ ~RLess(t_iter.p, R0)
          /\ t_iter.p = R0 => t_iter.exit = "roulette"
          /\ t_iter.exit # "roulette" => RLess(R0, t_iter.p)
    /\ \A k \in 1 .. 3 : t_throughput[k][2] > 0 /\ t_throughput[k][1] >= 0

\* A roulette test on a throughput that an absorbing attenuation made zero
\* has ended the path.
C13_Witness ==
    /\ t_pc = "done"
    /\ t_iter.roulette
    /\ t_iter.p = R0
    /\ t_iter.attenuation = Black
    /\ t_iter.exit = "roulette"

(***************************************************************************)
(* Claims about the render kernel.                                         *)
(***************************************************************************)
\* C4: the write of a thread stores the traced sample, with alpha 1, when
\* frame_count = 0, whatever the cell held; when frame_count = N > 0 it
\* stores sample * t + prior * (1 - t) with t = 1 / (N + 1), where prior is
\* what the cell held.
C4_WriteBlendsWithPrior ==
    [][\A th \in DOMAIN r_pc :
          ThreadWrite(th) =>
             LET cell == ThreadY(th) * width + ThreadX(th)
                 new == r_sample[th]
                 prior == output[cell]
                 n == frame_count
                 mix(k) == RAdd(RMul(new[k], Rat(1, n + 1)),
                                RMul(prior[k], Rat(n, n + 1)))
             IN  output'[cell] =
                    IF n = 0 THEN <<new[1], new[2], new[3], R1>>
                    ELSE <<mix(1), mix(2), mix(3), R1>>]_vars

\* A frame with frame_count = 2 has blended a non-black sample into a cell
\* that held garbage.
C4_Witness ==
    \E th \in DOMAIN r_pc :
       /\ r_pc[th] = "done"
       /\ frame_count = 2
       /\ ~OutOfRange(ThreadX(th), ThreadY(th))
       /\ r_sample[th] # Black
       /\ output[PixelIndex(ThreadX(th), ThreadY(th))] # MakeFloat4(r_sample[th])
       /\ output[PixelIndex(ThreadX(th), ThreadY(th))] # MakeFloat4(Black)

RECURSIVE TrailingZeros(_)
TrailingZeros(n) == IF n % 2 = 1 THEN 0 ELSE 1 + TrailingZeros(n \div 2)

\* The number of trailing zero bits of a uint32_t, 32 for zero.
TrailingZeros32(a) ==
    IF a[1] # 0 THEN TrailingZeros(a[1])
    ELSE IF a[2] # 0 THEN 8 + TrailingZeros(a[2])
    ELSE IF a[3] # 0 THEN 16 + TrailingZeros(a[3])
    ELSE IF a[4] # 0 THEN 24 + TrailingZeros(a[4])
    ELSE 32

\* a - b on uint32_t: a + ~b + 1.
USub(a, b) ==
    UAdd(UAdd(a, <<Byte - 1 - b[1], Byte - 1 - b[2], Byte - 1 - b[3],
                   Byte - 1 - b[4]>>), U32(1))

\* Two launches with different frame counts have seeded the thread.
TwoFrames ==
    /\ Len(rand_log) = 2
    /\ rand_log[1].frame_count # rand_log[2].frame_count

\* (a - b) * width * height is a multiple of 2^32.
WrapsAround(a, b) ==
    TrailingZeros32(USub(a, b)) + TrailingZeros(width) + TrailingZeros(height)
        >= 32

\* C12 as stated: for a fixed pixel any two distinct frame_count values
\* yield distinct seeds, the seed being frame_count * width * height +
\* pixel_index + grid offset modulo 2^32.
C12_DistinctFramesDistinctSeeds ==
    TwoFrames => rand_log[1].seed # rand_log[2].seed

\* C12 amended: the seed is a function of frame_count, width, height, the
\* pixel position and the launch shape, and for a fixed pixel two distinct
\* frame_count values yield the same seed exactly when their difference
\* times width * height is a multiple of 2^32.
C12_SeedsCollideOnlyOnWrap ==
    /\ \A i \in 1 .. Len(rand_log) :
          LET x == ThreadX(rand_log[i].thread)
              y == ThreadY(rand_log[i].thread)
          IN  rand_log[i].seed =
                 UAdd(UAdd(UMul(rand_log[i].frame_count, U32(width * height)),
                           U32(y * width + x)),
                      U32(y * grid[1] * block[1] + x))
    /\ Len(rand_log) = 2 =>
          /\ rand_log[1].frame_count = rand_log[2].frame_count
                => rand_log[1].seed = rand_log[2].seed
          /\ TwoFrames =>
                (rand_log[1].seed = rand_log[2].seed
                    <=> WrapsAround(rand_log[1].frame_count,
                                    rand_log[2].frame_count))

\* Two frame counts whose products with width * height both wrapped around
\* 2^32 gave the thread different seeds on an image of even size.
C12_Witness ==
    /\ TwoFrames
    /\ (width * height) % 2 = 0
    /\ rand_log[1].frame_count[4] >= Byte \div 2
    /\ rand_log[2].frame_count[4] >= Byte \div 2
    /\ rand_log[1].seed # rand_log[2].seed

RECURSIVE CSum(_)
CSum(samples) ==
    IF samples = <<>> THEN Black
    ELSE CAdd(samples[1], CSum(Tail(samples)))

Mean(samples) == CScale(CSum(samples), Rat(1, Len(samples)))

\* C14: after launches with frame_count = 0, 1, ..., N in that order on the
\* same buffer, the pixel holds the arithmetic mean of the N + 1 samples
\* traced for it, whatever the buffer held before frame 0.
C14_RunningMean ==
    f_samples # <<>> =>
        /\ frame_count = Len(f_samples) - 1
        /\ output[0] = MakeFloat4(Mean(f_samples))

\* Three or more frames with differing samples have been accumulated.
C14_Witness ==
    /\ Len(f_samples) >= 3
    /\ f_samples[1] # f_samples[2]
    /\ f_samples[3] # Black
    /\ output[0] = MakeFloat4(Mean(f_samples))

(***************************************************************************)
(* Claims about the aging transform.                                       *)
(***************************************************************************)
\* C9: applyRustEffect with oxidation_level = 0 returns the base colour, for
\* every point, pattern_scale, surface_roughness, rust_color and noise value.
C9_NoOxidationKeepsBase ==
    (rust_call.called /\ rust_call.params.oxidation_level = R0)
        => rust_result = rust_call.base_color

\* A call with no oxidation, a rough surface, a rust tint and a non-zero
\* noise value at the sampled point.
C9_Witness ==
    /\ rust_call.called
    /\ rust_call.params.oxidation_level = R0
    /\ rust_call.params.surface_roughness # R0
    /\ rust_call.params.rust_color # Black
    /\ noise(PScale(rust_call.point, rust_call.params.pattern_scale)) # R0
    /\ rust_result = rust_call.base_color

====
